---- MODULE Spec2Model ----
(***************************************************************************)
(* Model of microfoon: the ingestion pipeline (microfoon/main.py), the     *)
(* bounded-retry transcription call (microfoon/intelligence.py) and the    *)
(* reprocessing tools (scripts/reprocess_failed.py,                        *)
(* scripts/regenerate_exports.py), under Spec; the dedup pass              *)
(* (scripts/cleanup_db.py) run on bounded tables, under DedupSpec; and the *)
(* consistency checker (scripts/check_consistency.py) run on bounded       *)
(* tables and vaults, under CheckSpec.                                     *)
(*                                                                         *)
(* store is the committed recordings table; mem is the SQLAlchemy session  *)
(* of the running tool (its objects, flushed to store by commit).  A tool  *)
(* run is cut into steps at its blocking external calls (copy,             *)
(* transcription attempt, export), which is where a crash can fall.        *)
(***************************************************************************)
EXTENDS Integers, Sequences, FiniteSets, TLC

VARIABLES
    store,      \* committed table: id -> row
    mem,        \* session objects of the current (or last) tool run: id -> row
    disk,       \* stored file names present under STORAGE_DIRECTORY
    clock,      \* datetime.now(), in seconds
    nextId,     \* next autoincrement id
    pc,         \* position of the running tool
    batch,      \* process_usb_drive: audio_files of this run
    runBase,    \* process_usb_drive: nextId when the run started
    queue,      \* items still to iterate (files for ingest, ids otherwise)
    cur,        \* id of the row being processed
    curPath,    \* stored_path / file_path handed to process_audio
    exportOnly, \* regenerate: export_only argument
    processed,  \* process_usb_drive: processed_files (their stored paths)
    retry,      \* process_audio: retry argument of the current call
    attempt,    \* process_audio: attempts started in the current call
    lastAttempt, \* process_audio: how the latest attempt ended
    remote,     \* process_audio: what the latest attempt did at the remote service
    result,     \* process_audio: value returned to the caller
    calls,      \* id -> number of process_audio calls in the current pass
    runs,       \* tool runs started so far
    recordingsDir, \* cleanup_db: RECORDINGS_DIR, stored name -> size in bytes
    args,       \* cleanup_db: the parsed command line
    analysis,   \* cleanup_db: the dict returned by analyze_database
    shown,      \* cleanup_db: the tables printed by display_analysis
    ids_to_delete, \* cleanup_db: the list built by cleanup_database
    vault,      \* check_consistency: OBSIDIAN_VAULT_PATH, file name -> content
    issues_found, \* check_consistency: the counter of the running check
    outcomes,   \* check_consistency: what the loop did with each recording so far
    reported,   \* check_consistency: the count of the closing line, once printed
    previous    \* check_consistency: outcomes and count of the run before

vars == <<store, mem, disk, clock, nextId, pc, batch, runBase, queue, cur,
          curPath, exportOnly, processed, retry, attempt, lastAttempt, remote, result,
          calls, runs, recordingsDir, args, analysis, shown, ids_to_delete,
          vault, issues_found, outcomes, reported, previous>>

\* The variables of the dedup pass (scripts/cleanup_db.py).
dedupVars == <<recordingsDir, args, analysis, shown, ids_to_delete>>

\* The variables of the consistency checker (scripts/check_consistency.py).
checkVars == <<vault, issues_found, outcomes, reported, previous>>
NoPrevious == [outcomes |-> <<>>, reported |-> <<>>]

----------------------------------------------------------------------------
\* Bounds of the model.
MaxRecs == 2
MaxClock == 0
MaxRuns == 3

----------------------------------------------------------------------------
\* Values.
Null == "null"

PROCESSING == "PROCESSING"
COMPLETED == "COMPLETED"
EXPORTED == "EXPORTED"
FAILED == "FAILED"
ProcessingStatus == {PROCESSING, COMPLETED, EXPORTED, FAILED}

\* Audio files found on the drive: the same base name can sit in two directories.
UsbFiles == {[dir |-> d, name |-> "REC001.WAV"] : d \in {1, 2}}

\* Path.with_suffix(".compressed.mp3"): k counts the rewrites of the suffix.
WithSuffixCompressed(f) == [f EXCEPT !.k = @ + 1]

\* audio.copy_and_rename: "<timestamp>_<file name>" under STORAGE_DIRECTORY.
StoredName(ts, file) == [ts |-> ts, name |-> file.name, k |-> 0]

\* Recording(...) as constructed by process_usb_drive.  source_path, which no
\* code reads, is left out of the row.
NewRecording(file, stored) ==
    [original_filename |-> file.name,
     stored_filename |-> stored,
     status |-> PROCESSING,
     transcript |-> Null,
     summary |-> Null,
     title |-> Null,
     obsidian_path |-> Null,
     error_message |-> Null]

\* Positions at which no tool is running.
Rest == {"idle", "aborted"}
NoCalls == [i \in 1..MaxRecs |-> 0]

NoPath == [ts |-> 0, name |-> "", k |-> 0]

\* A tool returns: its local variables are gone.
DropLocals ==
    /\ batch' = <<>>
    /\ runBase' = 0
    /\ queue' = <<>>
    /\ cur' = 0
    /\ curPath' = NoPath
    /\ exportOnly' = FALSE
    /\ processed' = <<>>
    /\ retry' = TRUE
    /\ calls' = NoCalls

----------------------------------------------------------------------------
\* GeminiProcessor.process_audio (microfoon/intelligence.py).

\* Values json.loads can return, by what the callers look at: truthiness,
\* whether .get exists, and the three keys read with .get (Null when absent).
JsonValue(kind, t, c, ti) == [kind |-> kind, transcript |-> t, cleanup |-> c, title |-> ti]
None == JsonValue("null", Null, Null, Null)
EmptyDict == JsonValue("empty", Null, Null, Null)
NonDict == JsonValue("list", Null, Null, Null)
FullDict == JsonValue("dict", "transcript", "cleanup", "title")
\* A dict with all three keys, or lacking one of them.
Dicts == {FullDict,
          [FullDict EXCEPT !.transcript = Null],
          [FullDict EXCEPT !.cleanup = Null],
          [FullDict EXCEPT !.title = Null]}
JsonValues == Dicts \cup {None, EmptyDict, NonDict}

\* What the remote service does in one attempt: a stage that raises, or a
\* response text (with or without raw control characters, valid JSON or not).
StageErrors == {"upload_error", "remote_failed", "generate_error"}
Responses ==
    {[stage |-> s, ctrl |-> FALSE, garbage |-> FALSE, value |-> None] : s \in StageErrors}
    \cup {[stage |-> "text", ctrl |-> c, garbage |-> g, value |-> v] :
            c \in BOOLEAN, g \in BOOLEAN, v \in JsonValues}

\* json.loads: raises on raw control characters and on text that is no JSON.
JsonLoadsRaises(text) == text.ctrl \/ text.garbage

\* re.sub(r"[\x00-\x08\x0b\x0c\x0e-\x1f]", "", response.text)
StripControl(text) == [text EXCEPT !.ctrl = FALSE]

\* Mutant: the sanitized text is parsed a second time after a failure.
ParseCount_Twice(resp) ==
    IF resp.stage # "text" THEN 0
    ELSE IF ~JsonLoadsRaises(resp) THEN 1
    ELSE IF JsonLoadsRaises(StripControl(resp)) THEN 3 ELSE 2

\* The calls of json.loads in one attempt: none before the response arrived,
\* one on response.text, one more on the sanitized text when the first raised.
ParseCount(resp) ==
    IF resp.stage # "text" THEN 0
    ELSE IF JsonLoadsRaises(resp) THEN 2 ELSE 1

\* What one attempt did at the remote service and with the response: whether
\* upload_file returned a file, whether delete_file was called on it (its own
\* failure is swallowed), and how often the response was parsed.
RemoteCalls(resp) ==
    [uploaded |-> resp.stage # "upload_error",
     delete_attempted |-> resp.stage = "text",
     parses |-> ParseCount(resp)]
NoRemote == [uploaded |-> FALSE, delete_attempted |-> FALSE, parses |-> 0]

\* The body of one attempt's try block: does it raise, and what it returns.
AttemptRaises(resp) ==
    \/ resp.stage \in StageErrors
    \/ JsonLoadsRaises(resp) /\ JsonLoadsRaises(StripControl(resp))

\* Mutant: the loop runs one attempt too many.
MaxAttempts_OneMore(r) == IF r THEN 3 ELSE 2

\* max_attempts = 2 if retry else 1
MaxAttempts(r) == IF r THEN 2 ELSE 1

TranscribePcs == {"ingest_transcribe", "rp_transcribe", "rg_transcribe", "direct"}

ReturnPc(p) ==
    CASE p = "ingest_transcribe" -> "ingest_apply"
      [] p = "rp_transcribe" -> "rp_apply"
      [] p = "rg_transcribe" -> "rg_apply"
      [] p = "direct" -> "direct_done"

\* Where the for loop goes after an attempt that raised.
AfterRaise(p, n, r) == IF n = MaxAttempts(r) THEN ReturnPc(p) ELSE p

\* One iteration of the for loop: an attempt, then return or retry.
PaAttempt ==
    /\ pc \in TranscribePcs
    /\ attempt < MaxAttempts(retry)
    /\ attempt' = attempt + 1
    /\ \E resp \in Responses :
         IF AttemptRaises(resp)
         THEN /\ lastAttempt' = "raised"
              /\ remote' = RemoteCalls(resp)
              /\ result' = None
              /\ pc' = AfterRaise(pc, attempt', retry)
         ELSE /\ lastAttempt' = "returned"
              /\ remote' = RemoteCalls(resp)
              /\ result' = resp.value
              /\ pc' = ReturnPc(pc)
    /\ UNCHANGED <<store, mem, disk, clock, nextId, batch, runBase, queue, cur,
                   curPath, exportOnly, processed, retry, calls, runs>>
    /\ UNCHANGED dedupVars
    /\ UNCHANGED checkVars

\* process_audio called on its own, with either value of retry.
ProcessAudioDirect ==
    /\ pc = "idle"
    /\ runs < MaxRuns
    /\ runs' = runs + 1
    /\ pc' = "direct"
    /\ retry' \in BOOLEAN
    /\ attempt' = 0
    /\ lastAttempt' = "none"
    /\ remote' = NoRemote
    /\ result' = None
    /\ mem' = store
    /\ batch' = <<>>
    /\ runBase' = 0
    /\ queue' = <<>>
    /\ cur' = 0
    /\ curPath' = NoPath
    /\ exportOnly' = FALSE
    /\ processed' = <<>>
    /\ calls' = NoCalls
    /\ UNCHANGED <<store, disk, clock, nextId>>
    /\ UNCHANGED dedupVars
    /\ UNCHANGED checkVars

\* The direct caller drops the returned value.
DirectDone ==
    /\ pc = "direct_done"
    /\ pc' = "idle"
    /\ attempt' = 0
    /\ lastAttempt' = "none"
    /\ remote' = NoRemote
    /\ result' = None
    /\ retry' = TRUE
    /\ UNCHANGED <<store, mem, disk, clock, nextId, batch, runBase, queue, cur,
                   curPath, exportOnly, processed, calls, runs>>
    /\ UNCHANGED dedupVars
    /\ UNCHANGED checkVars

----------------------------------------------------------------------------
\* What the tools do to a row.

\* `if result:`
Truthy(v) == v.kind \in {"dict", "list"}

\* result.get exists on a dict only (AttributeError otherwise).
GetRaises(v) == v.kind # "dict"

\* rec.transcript = result.get("transcript"); rec.summary = result.get("cleanup");
\* rec.title = result.get("title")
SetFields(rec, v) ==
    [rec EXCEPT !.transcript = v.transcript, !.summary = v.cleanup, !.title = v.title]

\* recording.status = ProcessingStatus.COMPLETED
MarkCompleted(rec) == [rec EXCEPT !.status = COMPLETED]

\* str(e) of the exception caught by `except Exception as e`.
StrE == "str(e)"

\* Mutant: the status is set and the message is forgotten.
MarkFailed_NoMessage(rec, msg) == [rec EXCEPT !.status = FAILED]

\* recording.status = ProcessingStatus.FAILED; recording.error_message = msg
MarkFailed(rec, msg) == [rec EXCEPT !.status = FAILED, !.error_message = msg]

\* Mutant: the path is stored and the status is left as it was.
MarkExported_PathOnly(rec) == [rec EXCEPT !.obsidian_path = "note.md"]

\* recording.obsidian_path = str(obsidian_path); recording.status = EXPORTED
MarkExported(rec) == [rec EXCEPT !.obsidian_path = "note.md", !.status = EXPORTED]

\* recording.status = PROCESSING; recording.error_message = None
ResetToProcessing(rec) == [rec EXCEPT !.status = PROCESSING, !.error_message = Null]

\* recording.summary[:200] raises TypeError when summary is None.
SliceRaises(rec) == rec.summary = Null

\* ObsidianExporter.export: returns the note's path, returns nothing, or raises.
\* The note's name is built from the characters of title, so a null title raises.
ExportOutcomes(rec) ==
    IF rec.title = Null THEN {"raise"} ELSE {"path", "none", "raise"}

\* The row after the lines that follow process_audio in process_usb_drive and
\* reprocess_failed_recordings, up to the call of exporter.export (or to the
\* except clause); noResult is the message of the else branch.
AfterTranscription(rec, v, noResult) ==
    IF ~Truthy(v) THEN MarkFailed(rec, noResult)
    ELSE IF GetRaises(v) THEN MarkFailed(rec, StrE)
    ELSE IF SliceRaises(SetFields(rec, v))
         THEN MarkFailed(MarkCompleted(SetFields(rec, v)), StrE)
         ELSE MarkCompleted(SetFields(rec, v))

\* Whether those lines reach exporter.export.
ReachesExport(v) == Truthy(v) /\ ~GetRaises(v) /\ v.cleanup # Null

\* Mutant: the exported row keeps its status.
AfterExport_KeepsCompleted(rec, outcome) ==
    IF outcome = "raise" THEN MarkFailed(rec, StrE) ELSE rec
\* The row after exporter.export returned or raised, in the same two tools.
AfterExport(rec, outcome) ==
    CASE outcome = "path" -> MarkExported(rec)
      [] outcome = "none" -> rec
      [] outcome = "raise" -> MarkFailed(rec, StrE)

\* Mutant: the row is written under a fresh id instead of its own.
Put_Fresh(f, i, r) ==
    [j \in DOMAIN f \cup {Len(f) + 1} |-> IF j = Len(f) + 1 THEN r ELSE f[j]]

\* The table (or the session) with row i set to r.
Put(f, i, r) == [j \in DOMAIN f \cup {i} |-> IF j = i THEN r ELSE f[j]]

\* Ids in ascending order.
RECURSIVE SortedIds(_)
SortedIds(S) ==
    IF S = {} THEN <<>>
    ELSE LET m == CHOOSE x \in S : \A y \in S : x <= y
         IN <<m>> \o SortedIds(S \ {m})

\* find_audio_files: the audio files of the drive, each once, in os.walk order
\* (the order of the directories).
Batches ==
    {b \in UNION {[1..n -> UsbFiles] : n \in 1..MaxRecs} :
        \A i, j \in DOMAIN b : i < j => b[i].dir < b[j].dir}

----------------------------------------------------------------------------
\* process_usb_drive (microfoon/main.py).

\* Files found, the user confirms, the session and the components are created.
StartIngest ==
    /\ pc = "idle"
    /\ runs < MaxRuns
    /\ runs' = runs + 1
    /\ \E b \in Batches :
         /\ (nextId - 1) + Len(b) <= MaxRecs
         /\ batch' = b
         /\ queue' = b
    /\ mem' = store
    /\ runBase' = nextId
    /\ processed' = <<>>
    /\ calls' = NoCalls
    /\ cur' = 0
    /\ curPath' = NoPath
    /\ exportOnly' = FALSE
    /\ retry' = TRUE
    /\ pc' = "ingest_copy"
    /\ UNCHANGED <<store, disk, clock, nextId, attempt, lastAttempt, remote, result>>
    /\ UNCHANGED dedupVars
    /\ UNCHANGED checkVars

\* Mutant: the loop goes on to the row after a copy that failed.
CopyFailedPc_GoesOn == "ingest_row"
\* Where process_usb_drive is after copy_and_rename raised: the call is in no
\* try block, the exception leaves the function.
CopyFailedPc == "aborted"

\* Top of the loop: copy_and_rename(file_path).  shutil.copy2 can raise, and
\* nothing around the call catches it.
IngestCopy ==
    /\ pc = "ingest_copy"
    /\ \E dt \in {0, 1} :
         /\ clock + dt <= MaxClock
         /\ clock' = clock + dt
    /\ \/ /\ curPath' = StoredName(clock', Head(queue))
          /\ disk' = disk \cup {curPath'}
          /\ pc' = "ingest_row"
       \/ /\ pc' = CopyFailedPc
          /\ UNCHANGED <<disk, curPath, runs>>
    /\ UNCHANGED <<store, mem, nextId, batch, runBase, queue, cur, exportOnly,
                   processed, retry, attempt, lastAttempt, remote, result, calls, runs>>
    /\ UNCHANGED dedupVars
    /\ UNCHANGED checkVars

\* Recording(...), db_session.add, db_session.commit; then process_audio is called.
IngestRow ==
    /\ pc = "ingest_row"
    /\ cur' = nextId
    /\ nextId' = nextId + 1
    /\ mem' = Put(mem, nextId, NewRecording(Head(queue), curPath))
    /\ store' = mem'
    /\ calls' = [calls EXCEPT ![nextId] = @ + 1]
    /\ retry' = TRUE
    /\ attempt' = 0
    /\ lastAttempt' = "none"
    /\ remote' = NoRemote
    /\ result' = None
    /\ pc' = "ingest_transcribe"
    /\ UNCHANGED <<disk, clock, batch, runBase, queue, curPath, exportOnly, processed, runs>>
    /\ UNCHANGED dedupVars
    /\ UNCHANGED checkVars

\* Bottom of the loop: db_session.commit(), processed_files.append, next file.
IngestNextPc(q) == IF Tail(q) = <<>> THEN "ingest_post" ELSE "ingest_copy"

\* The lines after process_audio returned: the result is applied, and either
\* exporter.export is reached or the row is committed and the loop goes on.
IngestApply ==
    /\ pc = "ingest_apply"
    /\ mem' = Put(mem, cur, AfterTranscription(mem[cur], result, "Gemini processing returned no result"))
    /\ IF ReachesExport(result)
       THEN /\ pc' = "ingest_export"
            /\ UNCHANGED <<store, queue, processed, runs>>
       ELSE /\ store' = mem'
            /\ processed' = Append(processed, curPath)
            /\ queue' = Tail(queue)
            /\ pc' = IngestNextPc(queue)
    /\ attempt' = 0
    /\ lastAttempt' = "none"
    /\ remote' = NoRemote
    /\ result' = None
    /\ UNCHANGED <<disk, clock, nextId, batch, runBase, cur, curPath, exportOnly,
                   retry, calls, runs>>
    /\ UNCHANGED dedupVars
    /\ UNCHANGED checkVars

\* exporter.export(recording) returned or raised; then the commit.
IngestExport ==
    /\ pc = "ingest_export"
    /\ \E outcome \in ExportOutcomes(mem[cur]) :
         mem' = Put(mem, cur, AfterExport(mem[cur], outcome))
    /\ store' = mem'
    /\ processed' = Append(processed, curPath)
    /\ queue' = Tail(queue)
    /\ pc' = IngestNextPc(queue)
    /\ UNCHANGED <<disk, clock, nextId, batch, runBase, cur, curPath, exportOnly,
                   retry, attempt, lastAttempt, remote, result, calls, runs>>
    /\ UNCHANGED dedupVars
    /\ UNCHANGED checkVars

\* Post-processing: compress_audio writes "<stored>.compressed.mp3" for the
\* stored files it can read, when the user asks for it and pydub succeeds.
IngestPost ==
    /\ pc = "ingest_post"
    /\ \E S \in SUBSET ({processed[i] : i \in DOMAIN processed} \cap disk) :
         disk' = disk \cup {WithSuffixCompressed(f) : f \in S}
    /\ pc' = "idle"
    /\ DropLocals
    /\ mem' = store
    /\ UNCHANGED <<store, clock, nextId, attempt, lastAttempt, remote, result, runs>>
    /\ UNCHANGED dedupVars
    /\ UNCHANGED checkVars

----------------------------------------------------------------------------
\* reprocess_failed_recordings (scripts/reprocess_failed.py).

\* The query for the FAILED rows; nothing happens when there is none.
StartReprocess ==
    /\ pc = "idle"
    /\ runs < MaxRuns
    /\ runs' = runs + 1
    /\ {i \in DOMAIN store : store[i].status = FAILED} # {}
    /\ queue' = SortedIds({i \in DOMAIN store : store[i].status = FAILED})
    /\ mem' = store
    /\ calls' = NoCalls
    /\ batch' = <<>>
    /\ runBase' = 0
    /\ cur' = 0
    /\ curPath' = NoPath
    /\ exportOnly' = FALSE
    /\ processed' = <<>>
    /\ retry' = TRUE
    /\ pc' = "rp_check"
    /\ UNCHANGED <<store, disk, clock, nextId, attempt, lastAttempt, remote, result>>
    /\ UNCHANGED dedupVars
    /\ UNCHANGED checkVars

RpNextPc(q) == IF Tail(q) = <<>> THEN "rp_done" ELSE "rp_check"

\* "File not found: <name>"
MarkFileNotFound(rec) == [rec EXCEPT !.error_message = "File not found"]

\* The row named after the file that is handed to process_audio: the stored
\* file, or its compressed variant when only that one exists.
UseAvailableFile(rec) ==
    IF rec.stored_filename \in disk THEN rec
    ELSE [rec EXCEPT !.stored_filename = WithSuffixCompressed(@)]

\* Top of the loop: pick the file; without one, record it and continue; with
\* one, reset the row, commit, and call process_audio.
RpCheck ==
    /\ pc = "rp_check"
    /\ LET id == Head(queue)
           rec == mem[id]
           mp3 == WithSuffixCompressed(rec.stored_filename)
       IN IF rec.stored_filename \notin disk /\ mp3 \notin disk
          THEN /\ mem' = Put(mem, id, MarkFileNotFound(rec))
               /\ store' = mem'
               /\ queue' = Tail(queue)
               /\ pc' = RpNextPc(queue)
               /\ UNCHANGED <<cur, curPath, calls, retry, runs>>
          ELSE /\ mem' = Put(mem, id, ResetToProcessing(UseAvailableFile(rec)))
               /\ store' = mem'
               /\ cur' = id
               /\ curPath' = mem'[id].stored_filename
               /\ calls' = [calls EXCEPT ![id] = @ + 1]
               /\ retry' = TRUE
               /\ pc' = "rp_transcribe"
               /\ UNCHANGED queue
    /\ attempt' = 0
    /\ lastAttempt' = "none"
    /\ remote' = NoRemote
    /\ result' = None
    /\ UNCHANGED <<disk, clock, nextId, batch, runBase, exportOnly, processed, runs>>
    /\ UNCHANGED dedupVars
    /\ UNCHANGED checkVars

\* The lines after process_audio returned.
RpApply ==
    /\ pc = "rp_apply"
    /\ mem' = Put(mem, cur, AfterTranscription(mem[cur], result, "Gemini processing returned no result (after retry)"))
    /\ IF ReachesExport(result)
       THEN /\ pc' = "rp_export"
            /\ UNCHANGED <<store, queue, runs>>
       ELSE /\ store' = mem'
            /\ queue' = Tail(queue)
            /\ pc' = RpNextPc(queue)
    /\ attempt' = 0
    /\ lastAttempt' = "none"
    /\ remote' = NoRemote
    /\ result' = None
    /\ UNCHANGED <<disk, clock, nextId, batch, runBase, cur, curPath, exportOnly,
                   processed, retry, calls, runs>>
    /\ UNCHANGED dedupVars
    /\ UNCHANGED checkVars

\* exporter.export(recording) returned or raised; then the commit.
RpExport ==
    /\ pc = "rp_export"
    /\ \E outcome \in ExportOutcomes(mem[cur]) :
         mem' = Put(mem, cur, AfterExport(mem[cur], outcome))
    /\ store' = mem'
    /\ queue' = Tail(queue)
    /\ pc' = RpNextPc(queue)
    /\ UNCHANGED <<disk, clock, nextId, batch, runBase, cur, curPath, exportOnly,
                   processed, retry, attempt, lastAttempt, remote, result, calls, runs>>
    /\ UNCHANGED dedupVars
    /\ UNCHANGED checkVars

----------------------------------------------------------------------------
\* regenerate (scripts/regenerate_exports.py), also run by reprocess_all.py.

\* The rows the query selects: one id, one original file name, or all.
Selections ==
    {{i} : i \in DOMAIN store}
    \cup {{i \in DOMAIN store : store[i].original_filename = f.name} : f \in UsbFiles}
    \cup {DOMAIN store}

StartRegenerate ==
    /\ pc = "idle"
    /\ runs < MaxRuns
    /\ runs' = runs + 1
    /\ \E sel \in Selections :
         /\ sel # {}
         /\ queue' = SortedIds(sel)
    /\ exportOnly' \in BOOLEAN
    /\ mem' = store
    /\ calls' = NoCalls
    /\ batch' = <<>>
    /\ runBase' = 0
    /\ cur' = 0
    /\ curPath' = NoPath
    /\ processed' = <<>>
    /\ retry' = TRUE
    /\ pc' = "rg_check"
    /\ UNCHANGED <<store, disk, clock, nextId, attempt, lastAttempt, remote, result>>
    /\ UNCHANGED dedupVars
    /\ UNCHANGED checkVars

RgNextPc(q) == IF Tail(q) = <<>> THEN "rg_done" ELSE "rg_check"

\* file_path: the stored file, else its compressed variant.
RgFilePath(rec) ==
    IF rec.stored_filename \in disk THEN rec.stored_filename
    ELSE WithSuffixCompressed(rec.stored_filename)

\* Top of the loop: skip the row when no audio file exists; else export only,
\* or call process_audio.
RgCheck ==
    /\ pc = "rg_check"
    /\ LET id == Head(queue)
           rec == mem[id]
       IN IF RgFilePath(rec) \notin disk
          THEN /\ queue' = Tail(queue)
               /\ pc' = RgNextPc(queue)
               /\ UNCHANGED <<cur, curPath, calls, retry, runs>>
          ELSE /\ cur' = id
               /\ curPath' = RgFilePath(rec)
               /\ UNCHANGED queue
               /\ IF exportOnly
                  THEN /\ pc' = "rg_exportonly"
                       /\ UNCHANGED <<calls, retry, runs>>
                  ELSE /\ pc' = "rg_transcribe"
                       /\ calls' = [calls EXCEPT ![id] = @ + 1]
                       /\ retry' = TRUE
    /\ attempt' = 0
    /\ lastAttempt' = "none"
    /\ remote' = NoRemote
    /\ result' = None
    /\ UNCHANGED <<store, mem, disk, clock, nextId, batch, runBase, exportOnly,
                   processed, runs>>
    /\ UNCHANGED dedupVars
    /\ UNCHANGED checkVars

\* The row after exporter.export in export-only mode.
AfterExportOnly(rec, outcome) == IF outcome = "path" THEN MarkExported(rec) ELSE rec

\* export_only: exporter.export(rec); a path is stored and committed, anything
\* else is only printed.
RgExportOnly ==
    /\ pc = "rg_exportonly"
    /\ \E outcome \in ExportOutcomes(mem[cur]) :
         /\ mem' = Put(mem, cur, AfterExportOnly(mem[cur], outcome))
         /\ store' = IF outcome = "path" THEN mem' ELSE store
    /\ queue' = Tail(queue)
    /\ pc' = RgNextPc(queue)
    /\ UNCHANGED <<disk, clock, nextId, batch, runBase, cur, curPath, exportOnly,
                   processed, retry, attempt, lastAttempt, remote, result, calls, runs>>
    /\ UNCHANGED dedupVars
    /\ UNCHANGED checkVars

\* The row after the lines that follow process_audio in regenerate.
AfterRegeneration(rec, v) ==
    IF Truthy(v) /\ ~GetRaises(v) THEN SetFields(rec, v) ELSE rec

\* The lines after process_audio returned: a result is applied and the note is
\* exported again; no result (or an exception) is only printed.
RgApply ==
    /\ pc = "rg_apply"
    /\ mem' = Put(mem, cur, AfterRegeneration(mem[cur], result))
    /\ IF Truthy(result) /\ ~GetRaises(result)
       THEN /\ pc' = "rg_export"
            /\ UNCHANGED queue
       ELSE /\ queue' = Tail(queue)
            /\ pc' = RgNextPc(queue)
    /\ attempt' = 0
    /\ lastAttempt' = "none"
    /\ remote' = NoRemote
    /\ result' = None
    /\ UNCHANGED <<store, disk, clock, nextId, batch, runBase, cur, curPath,
                   exportOnly, processed, retry, calls, runs>>
    /\ UNCHANGED dedupVars
    /\ UNCHANGED checkVars

\* exporter.export(rec), its value unused and its exception caught; session.commit().
RgExport ==
    /\ pc = "rg_export"
    /\ store' = mem
    /\ queue' = Tail(queue)
    /\ pc' = RgNextPc(queue)
    /\ UNCHANGED <<mem, disk, clock, nextId, batch, runBase, cur, curPath,
                   exportOnly, processed, retry, attempt, lastAttempt, remote, result, calls, runs>>
    /\ UNCHANGED dedupVars
    /\ UNCHANGED checkVars

\* A reprocessing tool prints its summary and returns; its session is dropped.
ToolReturn ==
    /\ pc \in {"rp_done", "rg_done"}
    /\ pc' = "idle"
    /\ DropLocals
    /\ mem' = store
    /\ UNCHANGED <<store, disk, clock, nextId, attempt, lastAttempt, remote, result, runs>>
    /\ UNCHANGED dedupVars
    /\ UNCHANGED checkVars

----------------------------------------------------------------------------
\* The environment.

\* The process dies inside a running tool: the session and the local
\* variables are lost, the table and the files stay as they are.
Crash ==
    /\ pc \notin Rest
    /\ pc' = "idle"
    /\ DropLocals
    /\ mem' = store
    /\ attempt' = 0
    /\ lastAttempt' = "none"
    /\ remote' = NoRemote
    /\ result' = None
    /\ UNCHANGED <<store, disk, clock, nextId, runs>>
    /\ UNCHANGED dedupVars
    /\ UNCHANGED checkVars

\* After an uncaught exception the program is started again.
Restart ==
    /\ pc = "aborted"
    /\ pc' = "idle"
    /\ DropLocals
    /\ mem' = store
    /\ attempt' = 0
    /\ lastAttempt' = "none"
    /\ remote' = NoRemote
    /\ result' = None
    /\ UNCHANGED <<store, disk, clock, nextId, runs>>
    /\ UNCHANGED dedupVars
    /\ UNCHANGED checkVars

\* A stored audio file disappears between two runs (the case both
\* reprocessing tools test with exists()).
RemoveStoredFile ==
    /\ pc = "idle"
    /\ \E f \in disk : disk' = disk \ {f}
    /\ UNCHANGED <<store, mem, clock, nextId, pc, batch, runBase, queue, cur,
                   curPath, exportOnly, processed, retry, attempt, lastAttempt, remote,
                   result, calls, runs>>
    /\ UNCHANGED dedupVars
    /\ UNCHANGED checkVars

----------------------------------------------------------------------------
\* The dedup pass (scripts/cleanup_db.py): pure functions.

\* TRANSCRIPT_SIMILARITY_THRESHOLD = 0.85 and FILE_SIZE_TOLERANCE = 0.10, in percent.
TRANSCRIPT_SIMILARITY_THRESHOLD == 85
FILE_SIZE_TOLERANCE == 10

\* The result of get_file_size: <<>> is None, <<n>> a size of n bytes.
NoSize == <<>>

\* get_file_size(stored_filename)
GetFileSize(stored) ==
    IF stored \in DOMAIN recordingsDir THEN <<recordingsDir[stored]>> ELSE NoSize

\* Transcripts of the model.  TextB differs from TextA in two characters, TextC
\* from TextB in two, TextC from TextA in four; TextAPadded is TextA with a
\* trailing blank.
TextA == "call the dentist monday"
TextB == "call the dentist sunday"
TextC == "tell the dentist sunday"
TextAPadded == "call the dentist monday "
TextBlank == "  "

\* str.strip()
Strip(t) == IF t = TextAPadded THEN TextA ELSE IF t = TextBlank THEN "" ELSE t

\* transcript.strip() if transcript else ""
TranscriptClean(t) == IF t = Null \/ t = "" THEN "" ELSE Strip(t)

\* Sum of the sizes of SequenceMatcher(None, a, b).get_matching_blocks().
MatchingChars(a, b) ==
    IF a = b THEN Len(a)
    ELSE IF {a, b} = {TextA, TextC} THEN Len(a) - 4
    ELSE Len(a) - 2

\* text_similarity: SequenceMatcher.ratio() = 2 * M / T, kept as the fraction
\* num / den; 0.0 when a text is empty.
TextSimilarity(text1, text2) ==
    IF text1 = Null \/ text1 = "" \/ text2 = Null \/ text2 = ""
    THEN [num |-> 0, den |-> 1]
    ELSE [num |-> 2 * MatchingChars(Strip(text1), Strip(text2)),
          den |-> Len(Strip(text1)) + Len(Strip(text2))]

\* ratio >= pct / 100
AtLeast(ratio, pct) == 100 * ratio.num >= pct * ratio.den

Smaller(a, b) == IF a <= b THEN a ELSE b
Larger(a, b) == IF a <= b THEN b ELSE a

\* file_size_similar(size1, size2)
FileSizeSimilar(size1, size2) ==
    IF size1 = NoSize \/ size2 = NoSize THEN FALSE
    ELSE IF size1[1] = 0 \/ size2[1] = 0 THEN size1 = size2
    ELSE AtLeast([num |-> Smaller(size1[1], size2[1]), den |-> Larger(size1[1], size2[1])],
                 100 - FILE_SIZE_TOLERANCE)

\* extract_date_from_stored_filename: the YYYYMMDD part of the timestamp.
ExtractDateFromStoredFilename(stored) == stored.ts[1]

\* str.upper() on the file names of the model.
Upper(n) == IF n = "rec001.wav" THEN "REC001.WAV" ELSE n

\* orig_name.startswith('._')
StartsWithDotUnderscore(n) == n \in {"._REC001.WAV"}

\* A row as the SELECT of analyze_database returns it (source_path left out).
Record(i) ==
    [id |-> i,
     original_filename |-> store[i].original_filename,
     stored_filename |-> store[i].stored_filename,
     transcript |-> store[i].transcript,
     status |-> store[i].status]

\* The keys of a list in the order in which they first occur (the iteration
\* order of a defaultdict).
RECURSIVE DistinctInOrder(_)
DistinctInOrder(ks) ==
    IF ks = <<>> THEN <<>>
    ELSE <<Head(ks)>> \o DistinctInOrder(SelectSeq(Tail(ks), LAMBDA k : k # Head(ks)))

\* defaultdict(list) filled in list order: the groups, in the order of their keys.
\* keys[i] is the key of recs[i].
GroupBy(recs, keys) ==
    LET ks == DistinctInOrder(keys)
    IN [g \in 1..Len(ks) |->
          LET at == SortedIds({i \in DOMAIN recs : keys[i] = ks[g]})
          IN [k \in 1..Len(at) |-> recs[at[k]]]]

\* The groups with more than one record, and the records of the others.
Multiples(groups) == SelectSeq(groups, LAMBDA g : Len(g) > 1)
Singles(groups) ==
    LET one == SelectSeq(groups, LAMBDA g : Len(g) = 1)
    IN [i \in 1..Len(one) |-> one[i][1]]


\* The elements of a list.
Range(seq) == {seq[i] : i \in DOMAIN seq}

\* The records of a list with the given ids, in the order of ids.
ById(recs, ids) == [k \in 1..Len(ids) |-> CHOOSE r \in Range(recs) : r.id = ids[k]]

\* Mutant: the date is left out of the key.
Tier1Key_NameOnly(r) == <<Upper(r.original_filename)>>

\* First pass of find_duplicate_groups: records with a file and a name that is
\* no macOS metadata file, grouped by (original_filename.upper(), date).
Tier1Key(r) == <<Upper(r.original_filename), ExtractDateFromStoredFilename(r.stored_filename)>>

FilenameDateGroups(records) ==
    LET keyed == SelectSeq(records,
                           LAMBDA r : /\ GetFileSize(r.stored_filename) # NoSize
                                      /\ r.original_filename # Null
                                      /\ ~StartsWithDotUnderscore(r.original_filename))
    IN GroupBy(keyed, [i \in DOMAIN keyed |-> Tier1Key(keyed[i])])

Tier1Groups(records) == Multiples(FilenameDateGroups(records))

\* Mutant: the records of the name-and-date groups stay in the later passes.
RemainingRecords_All(records) == records

\* remaining_records: the records alone under their key.
RemainingRecords(records) == Singles(FilenameDateGroups(records))

\* Mutant: the signature leaves out the file size.
Signature_TranscriptOnly(r) == <<TranscriptClean(r.transcript)>>
\* Second pass: the remaining records that have a transcript, grouped by
\* (file_size, transcript_clean).
Signature(r) == <<GetFileSize(r.stored_filename), TranscriptClean(r.transcript)>>

ExactGroups(records) ==
    LET signed == SelectSeq(RemainingRecords(records),
                            LAMBDA r : TranscriptClean(r.transcript) # "")
    IN GroupBy(signed, [i \in DOMAIN signed |-> Signature(signed[i])])

Tier2Groups(records) == Multiples(ExactGroups(records))
SimilarityCandidates(records) == Singles(ExactGroups(records))

\* Mutant: the size condition is dropped.
IsSimilar_TranscriptOnly(rec1, rec2) ==
    AtLeast(TextSimilarity(TranscriptClean(rec1.transcript), TranscriptClean(rec2.transcript)),
            TRANSCRIPT_SIMILARITY_THRESHOLD)

\* The test of the inner loop: file_size_similar(size1, size2) and
\* text_similarity(transcript1_clean, transcript2_clean) >= threshold.
IsSimilar(rec1, rec2) ==
    /\ FileSizeSimilar(GetFileSize(rec1.stored_filename), GetFileSize(rec2.stored_filename))
    /\ AtLeast(TextSimilarity(TranscriptClean(rec1.transcript), TranscriptClean(rec2.transcript)),
               TRANSCRIPT_SIMILARITY_THRESHOLD)

\* Third pass, from index i on with used_indices = used: candidate i, when not
\* used, is compared with the later unused candidates; a group of one is dropped.
RECURSIVE SimilarGroupsFrom(_, _, _)
SimilarGroupsFrom(cands, i, used) ==
    IF i > Len(cands) THEN <<>>
    ELSE IF i \in used \/ TranscriptClean(cands[i].transcript) = ""
    THEN SimilarGroupsFrom(cands, i + 1, used)
    ELSE LET joined == {j \in (i + 1)..Len(cands) :
                           /\ j \notin used
                           /\ TranscriptClean(cands[j].transcript) # ""
                           /\ IsSimilar(cands[i], cands[j])}
             order == SortedIds(joined)
             similar_group == <<cands[i]>> \o [k \in 1..Len(order) |-> cands[order[k]]]
         IN (IF Len(similar_group) > 1 THEN <<similar_group>> ELSE <<>>)
            \o SimilarGroupsFrom(cands, i + 1, used \cup {i} \cup joined)

Tier3Groups(records) == SimilarGroupsFrom(SimilarityCandidates(records), 1, {})

\* find_duplicate_groups(records)
FindDuplicateGroups(records) ==
    Tier1Groups(records) \o Tier2Groups(records) \o Tier3Groups(records)

\* SELECT ... FROM recordings ORDER BY id
AllRecords ==
    LET ids == SortedIds(DOMAIN store) IN [k \in 1..Len(ids) |-> Record(ids[k])]

\* Mutant: no record is set aside as missing.
Analyze_NoMissing ==
    [all_records |-> AllRecords,
     duplicate_groups |-> FindDuplicateGroups(AllRecords),
     missing_files |-> <<>>]

\* analyze_database(conn)
Analyze ==
    LET valid == SelectSeq(AllRecords, LAMBDA r : GetFileSize(r.stored_filename) # NoSize)
    IN [all_records |-> AllRecords,
        duplicate_groups |-> FindDuplicateGroups(valid),
        missing_files |-> SelectSeq(AllRecords, LAMBDA r : GetFileSize(r.stored_filename) = NoSize)]

\* seq[:10]
FirstTen(seq) == SubSeq(seq, 1, Smaller(Len(seq), 10))

RECURSIVE SumOf(_)
SumOf(ns) == IF ns = <<>> THEN 0 ELSE Head(ns) + SumOf(Tail(ns))

\* display_analysis(analysis): the counts, one table per group with a row per
\* record and its "Keep?" mark (j == 0), and the table of the missing files.
Display(an) ==
    LET duplicate_count == SumOf([g \in DOMAIN an.duplicate_groups |-> Len(an.duplicate_groups[g]) - 1])
        total_to_remove == Len(an.missing_files) + duplicate_count
    IN [total_to_remove |-> total_to_remove,
        final_count |-> Len(an.all_records) - total_to_remove,
        groups |-> [g \in DOMAIN FirstTen(an.duplicate_groups) |->
                      [j \in DOMAIN an.duplicate_groups[g] |->
                         [id |-> an.duplicate_groups[g][j].id, keep |-> j = 1]]],
        missing |-> [k \in DOMAIN FirstTen(an.missing_files) |-> an.missing_files[k].id]]

\* Mutant: the group is sorted by id alone.
SortedGroup_ByIdOnly(group) == ById(group, SortedIds({r.id : r \in Range(group)}))

\* sorted(group, key=lambda r: (r[4] != 'EXPORTED', r[0]))
SortedGroup(group) ==
    ById(group, SortedIds({r.id : r \in {x \in Range(group) : x.status = EXPORTED}}))
    \o ById(group, SortedIds({r.id : r \in {x \in Range(group) : x.status # EXPORTED}}))

RECURSIVE Flatten(_)
Flatten(seqs) == IF seqs = <<>> THEN <<>> ELSE Head(seqs) \o Flatten(Tail(seqs))

\* The list ids_to_delete of cleanup_database: the missing files, then every
\* record of every group but the first of the sorted group.
IdsToDelete(an) ==
    [k \in DOMAIN an.missing_files |-> an.missing_files[k].id]
    \o Flatten([g \in DOMAIN an.duplicate_groups |->
                  LET rest == Tail(SortedGroup(an.duplicate_groups[g]))
                  IN [k \in DOMAIN rest |-> rest[k].id]])

\* Mutant: every run deletes.
DryRun_Never(a) == FALSE

\* dry_run = not args.force
DryRun(a) == ~a.force

\* parse_args: --dry-run is store_true with default True, --force is store_true.
ParseArgs(argv) == [dry_run |-> TRUE, force |-> "--force" \in argv]

\* DELETE FROM recordings WHERE id IN (...)
DeleteRows(table, ids) == [i \in DOMAIN table \ Range(ids) |-> table[i]]


----------------------------------------------------------------------------
\* The dedup pass (scripts/cleanup_db.py): main and the functions it calls.

NoArgs == [dry_run |-> TRUE, force |-> FALSE]
NoAnalysis == [all_records |-> <<>>, duplicate_groups |-> <<>>, missing_files |-> <<>>]
NoDisplay == [total_to_remove |-> 0, final_count |-> 0, groups |-> <<>>, missing |-> <<>>]

\* What the pipeline tools own: untouched by the dedup pass.
pipelineVars == <<mem, disk, clock, nextId, batch, runBase, queue, cur, curPath,
                  exportOnly, processed, retry, attempt, lastAttempt, remote, result,
                  calls, runs>>

\* main: the command line is parsed and the database is opened.
CleanupMain ==
    /\ pc = "idle"
    /\ \E argv \in SUBSET {"--dry-run", "--force"} : args' = ParseArgs(argv)
    /\ pc' = "cl_analyze"
    /\ UNCHANGED <<store, recordingsDir, analysis, shown, ids_to_delete>>
    /\ UNCHANGED pipelineVars
    /\ UNCHANGED checkVars

\* analysis = analyze_database(conn)
AnalyzeDatabase ==
    /\ pc = "cl_analyze"
    /\ analysis' = Analyze
    /\ pc' = "cl_display"
    /\ UNCHANGED <<store, recordingsDir, args, shown, ids_to_delete>>
    /\ UNCHANGED pipelineVars
    /\ UNCHANGED checkVars

\* display_analysis(analysis)
DisplayAnalysis ==
    /\ pc = "cl_display"
    /\ shown' = Display(analysis)
    /\ pc' = "cl_cleanup"
    /\ UNCHANGED <<store, recordingsDir, args, analysis, ids_to_delete>>
    /\ UNCHANGED pipelineVars
    /\ UNCHANGED checkVars

\* cleanup_database(conn, analysis, dry_run=not args.force)
CleanupDatabase ==
    /\ pc = "cl_cleanup"
    /\ ids_to_delete' = IdsToDelete(analysis)
    /\ store' = IF DryRun(args) THEN store ELSE DeleteRows(store, ids_to_delete')
    /\ pc' = "cl_done"
    /\ UNCHANGED <<recordingsDir, args, analysis, shown>>
    /\ UNCHANGED pipelineVars
    /\ UNCHANGED checkVars

\* main prints the closing line and the process ends.
CleanupReturn ==
    /\ pc = "cl_done"
    /\ pc' = "idle"
    /\ args' = NoArgs
    /\ analysis' = NoAnalysis
    /\ shown' = NoDisplay
    /\ ids_to_delete' = <<>>
    /\ UNCHANGED <<store, recordingsDir>>
    /\ UNCHANGED pipelineVars
    /\ UNCHANGED checkVars

\* Tables the dedup pass is run on.  A row was ingested from a file of some
\* name on some day (its second of the day is its id, so stored names differ);
\* its stored file has a size or is gone; a row without a transcript is
\* FAILED, the others are COMPLETED or EXPORTED.
MaxRows == 3

DedupFiles ==
    {[name |-> "REC001.WAV", day |-> 1], [name |-> "rec001.wav", day |-> 1],
     [name |-> "REC001.WAV", day |-> 2], [name |-> "REC002.WAV", day |-> 1]}

DedupContents ==
    {[size |-> <<100>>, transcript |-> TextA, status |-> COMPLETED],
     [size |-> <<100>>, transcript |-> TextAPadded, status |-> EXPORTED],
     [size |-> <<105>>, transcript |-> TextB, status |-> COMPLETED],
     [size |-> <<105>>, transcript |-> TextC, status |-> COMPLETED],
     [size |-> <<125>>, transcript |-> TextB, status |-> COMPLETED],
     [size |-> <<100>>, transcript |-> Null, status |-> FAILED],
     [size |-> <<100>>, transcript |-> TextBlank, status |-> FAILED],
     [size |-> NoSize, transcript |-> TextA, status |-> COMPLETED]}

DedupRows == {[file |-> f, content |-> c] : f \in DedupFiles, c \in DedupContents}

\* Larger tables, enough rows for two clusters at once, of rows whose file
\* exists: a padded transcript (equal after strip to its copies) and two
\* transcripts similar to each other.
MaxWideRows == 4
WideRows ==
    {x \in DedupRows : /\ x.file.name = Upper(x.file.name)
                       /\ x.content.size \in {<<100>>, <<105>>}
                       /\ x.content.transcript \in {TextAPadded, TextB, TextC}}

\* The tables the dedup pass is run on.
DedupTables ==
    UNION {[1..n -> DedupRows] : n \in 1..MaxRows} \cup [1..MaxWideRows -> WideRows]

DedupStoredName(i, x) == StoredName(<<x.file.day, i>>, x.file)

DedupRecording(i, x) ==
    [NewRecording(x.file, DedupStoredName(i, x)) EXCEPT
        !.transcript = x.content.transcript, !.status = x.content.status]

DedupInit ==
    /\ \E t \in DedupTables :
         /\ store = [i \in DOMAIN t |-> DedupRecording(i, t[i])]
         /\ recordingsDir =
              [f \in {DedupStoredName(i, t[i]) : i \in {j \in DOMAIN t : t[j].content.size # NoSize}}
                 |-> t[CHOOSE i \in DOMAIN t : DedupStoredName(i, t[i]) = f].content.size[1]]
    /\ mem = store
    /\ disk = DOMAIN recordingsDir
    /\ nextId = Len(store) + 1
    /\ clock = 0
    /\ pc = "idle"
    /\ batch = <<>>
    /\ runBase = 0
    /\ queue = <<>>
    /\ cur = 0
    /\ curPath = NoPath
    /\ exportOnly = FALSE
    /\ processed = <<>>
    /\ retry = TRUE
    /\ calls = NoCalls
    /\ runs = 0
    /\ attempt = 0
    /\ lastAttempt = "none"
    /\ remote = NoRemote
    /\ result = None
    /\ args = NoArgs
    /\ analysis = NoAnalysis
    /\ shown = NoDisplay
    /\ ids_to_delete = <<>>
    /\ vault = <<>>
    /\ issues_found = 0
    /\ outcomes = <<>>
    /\ reported = <<>>
    /\ previous = NoPrevious

DedupNext ==
    \/ CleanupMain \/ AnalyzeDatabase \/ DisplayAnalysis \/ CleanupDatabase
    \/ CleanupReturn

DedupSpec == DedupInit /\ [][DedupNext]_vars

----------------------------------------------------------------------------
\* check_consistency (scripts/check_consistency.py).

\* Bound of the tables the checker is run on.
MaxCheckRows == 2

\* A summary in the third person, and str.lower() of the summaries used.
TextSpeaker == "The speaker calls the dentist monday"
Lower(t) == IF t = TextSpeaker THEN "the speaker calls the dentist monday" ELSE t

\* Contents of exported notes: the note of TextA, the note of TextSpeaker, a
\* note of some other text; and a file that exists and cannot be read.
NoteA == "# Dentist ## Note call the dentist monday"
NoteSpeaker == "# Dentist ## Note The speaker calls the dentist monday"
NoteOther == "# Dentist ## Note water the plants"
Readable(text) == [readable |-> TRUE, text |-> text]
Unreadable == [readable |-> FALSE, text |-> ""]

\* `sub in text` on the texts above.
Contains(text, sub) ==
    \/ sub = ""
    \/ <<text, sub>> \in {<<NoteA, TextA>>, <<NoteSpeaker, TextSpeaker>>,
                          <<"the speaker calls the dentist monday", "the speaker">>}

\* `if not rec.summary`
Falsy(x) == x = Null \/ x = ""

\* "".join(c for c in title if c.isalnum() or c in (' ', '-', '_')).strip()
SafeTitle(title) == IF title = "Dentist?" THEN "Dentist" ELSE title

\* f"{safe_title}.md"
NoteName(title) ==
    CASE SafeTitle(title) = "Dentist" -> "Dentist.md"
      [] SafeTitle(title) = "Mom" -> "Mom.md"

\* The marker phrases looked for in rec.summary.lower().
ThirdPersonMarkers == {"the speaker", "he mentions", "she mentions"}

\* One iteration of the loop over the recordings: what it does with rec.
\* Iterating over a title that is None raises TypeError outside the try block.
Finding(rec, v) ==
    IF Falsy(rec.summary) THEN "skipped"
    ELSE IF rec.title = Null THEN "raised"
    ELSE IF NoteName(rec.title) \notin DOMAIN v THEN "MISSING"
    ELSE IF ~v[NoteName(rec.title)].readable THEN "ERROR"
    ELSE IF ~Contains(v[NoteName(rec.title)].text, Strip(rec.summary)) THEN "MISMATCH"
    ELSE IF \E m \in ThirdPersonMarkers : Contains(Lower(rec.summary), m) THEN "THIRD PERSON"
    ELSE "clean"

\* The outcomes that print a finding and add one to issues_found.
Issues == {"MISSING", "ERROR", "MISMATCH", "THIRD PERSON"}

\* The outcomes in which the note was opened and read.
ReadOutcomes == {"MISMATCH", "THIRD PERSON", "clean"}

\* Mutant: the note is opened for writing, which empties it.
AfterRead_Truncates(v, name) == [v EXCEPT ![name] = Readable("")]

\* The vault after open(file_path, "r") and f.read().
AfterRead(v, name) == v

\* session.query(Recording).all(); issues_found = 0
CheckConsistency ==
    /\ pc = "idle"
    /\ runs < MaxRuns
    /\ runs' = runs + 1
    /\ queue' = SortedIds(DOMAIN store)
    /\ issues_found' = 0
    /\ outcomes' = <<>>
    /\ reported' = <<>>
    /\ previous' = [outcomes |-> outcomes, reported |-> reported]
    /\ pc' = "ck_loop"
    /\ UNCHANGED <<store, mem, disk, clock, nextId, batch, runBase, cur, curPath,
                   exportOnly, processed, retry, attempt, lastAttempt, remote, result,
                   calls, vault>>
    /\ UNCHANGED dedupVars

\* The body of `for rec in recordings`, for the next recording.
CheckLoop ==
    /\ pc = "ck_loop"
    /\ queue # <<>>
    /\ LET rec == store[Head(queue)]
           o == Finding(rec, vault)
       IN /\ outcomes' = Append(outcomes, [id |-> Head(queue), outcome |-> o])
          /\ issues_found' = IF o \in Issues THEN issues_found + 1 ELSE issues_found
          /\ vault' = IF o \in ReadOutcomes THEN AfterRead(vault, NoteName(rec.title)) ELSE vault
          /\ IF o = "raised"
             THEN pc' = "aborted" /\ queue' = queue
             ELSE pc' = "ck_loop" /\ queue' = Tail(queue)
    /\ UNCHANGED <<store, mem, disk, clock, nextId, batch, runBase, cur, curPath,
                   exportOnly, processed, retry, attempt, lastAttempt, remote, result,
                   calls, runs, reported, previous>>
    /\ UNCHANGED dedupVars

\* The closing lines: "All files match ..." or "Found n issues."
CheckReport ==
    /\ pc = "ck_loop"
    /\ queue = <<>>
    /\ reported' = <<issues_found>>
    /\ pc' = "ck_done"
    /\ UNCHANGED <<store, mem, disk, clock, nextId, batch, runBase, queue, cur, curPath,
                   exportOnly, processed, retry, attempt, lastAttempt, remote, result,
                   calls, runs, vault, issues_found, outcomes, previous>>
    /\ UNCHANGED dedupVars

\* check_consistency returns and the process ends.
CheckReturn ==
    /\ pc = "ck_done"
    /\ pc' = "idle"
    /\ UNCHANGED <<store, mem, disk, clock, nextId, batch, runBase, queue, cur, curPath,
                   exportOnly, processed, retry, attempt, lastAttempt, remote, result,
                   calls, runs>>
    /\ UNCHANGED dedupVars
    /\ UNCHANGED checkVars

\* Tables and vaults the checker is run on.  A row carries what a pass of the
\* pipeline can leave in it: a summary that is null, empty, padded or in the
\* third person, and a title that is null (the result had no title) or not.
CheckSummaries == {Null, "", TextAPadded, TextSpeaker}
CheckTitles == {Null, "Dentist", "Dentist?", "Mom"}
CheckRows == {[summary |-> su, title |-> ti] : su \in CheckSummaries, ti \in CheckTitles}
CheckNotes == {Readable(NoteA), Readable(NoteSpeaker), Readable(NoteOther), Unreadable}
CheckVaults ==
    UNION {[names -> CheckNotes] : names \in SUBSET {"Dentist.md", "Mom.md"}}

\* A row with its summary and title: EXPORTED when both are set, else FAILED by
\* the except clause of the tool that wrote it.
CheckRecording(i, x) ==
    LET row == [NewRecording([name |-> "REC001.WAV"], StoredName(i, [name |-> "REC001.WAV"]))
                   EXCEPT !.summary = x.summary, !.title = x.title, !.transcript = "transcript"]
    IN IF x.summary = Null \/ x.title = Null
       THEN MarkFailed(row, StrE)
       ELSE MarkExported(row)

CheckInit ==
    /\ \E n \in 1..MaxCheckRows : \E t \in [1..n -> CheckRows] :
         store = [i \in 1..n |-> CheckRecording(i, t[i])]
    /\ vault \in CheckVaults
    /\ mem = store
    /\ disk = {store[i].stored_filename : i \in DOMAIN store}
    /\ nextId = Len(store) + 1
    /\ clock = 0
    /\ pc = "idle"
    /\ batch = <<>>
    /\ runBase = 0
    /\ queue = <<>>
    /\ cur = 0
    /\ curPath = NoPath
    /\ exportOnly = FALSE
    /\ processed = <<>>
    /\ retry = TRUE
    /\ calls = NoCalls
    /\ runs = 0
    /\ attempt = 0
    /\ lastAttempt = "none"
    /\ remote = NoRemote
    /\ result = None
    /\ recordingsDir = <<>>
    /\ args = NoArgs
    /\ analysis = NoAnalysis
    /\ shown = NoDisplay
    /\ issues_found = 0
    /\ outcomes = <<>>
    /\ reported = <<>>
    /\ previous = NoPrevious
    /\ ids_to_delete = <<>>

CheckNext == CheckConsistency \/ CheckLoop \/ CheckReport \/ CheckReturn \/ Restart

CheckSpec == CheckInit /\ [][CheckNext]_vars

----------------------------------------------------------------------------
Init ==
    /\ store = <<>>
    /\ mem = <<>>
    /\ disk = {}
    /\ clock = 0
    /\ nextId = 1
    /\ pc = "idle"
    /\ batch = <<>>
    /\ runBase = 0
    /\ queue = <<>>
    /\ cur = 0
    /\ curPath = NoPath
    /\ exportOnly = FALSE
    /\ processed = <<>>
    /\ retry = TRUE
    /\ calls = NoCalls
    /\ runs = 0
    /\ attempt = 0
    /\ lastAttempt = "none"
    /\ remote = NoRemote
    /\ result = None
    /\ recordingsDir = <<>>
    /\ args = NoArgs
    /\ analysis = NoAnalysis
    /\ shown = NoDisplay
    /\ ids_to_delete = <<>>
    /\ vault = <<>>
    /\ issues_found = 0
    /\ outcomes = <<>>
    /\ reported = <<>>
    /\ previous = NoPrevious

Next ==
    \/ StartIngest \/ IngestCopy \/ IngestRow \/ IngestApply \/ IngestExport \/ IngestPost
    \/ StartReprocess \/ RpCheck \/ RpApply \/ RpExport
    \/ StartRegenerate \/ RgCheck \/ RgExportOnly \/ RgApply \/ RgExport
    \/ ProcessAudioDirect \/ PaAttempt \/ DirectDone
    \/ ToolReturn \/ Crash \/ Restart \/ RemoveStoredFile

Spec == Init /\ [][Next]_vars

----------------------------------------------------------------------------
\* Properties.

Rows == {store[i] : i \in DOMAIN store}

\* The transitions of the documented state machine.
ListedTransitions ==
    {<<PROCESSING, COMPLETED>>, <<COMPLETED, EXPORTED>>,
     <<PROCESSING, FAILED>>, <<FAILED, PROCESSING>>}

\* C1: whichever tool writes it, the status of a row changes only along the
\* listed transitions (a new row starts PROCESSING); in particular a row
\* becomes EXPORTED only from COMPLETED.  Stated on the rows as the running
\* tool writes them (a step to "idle" only drops the session).
C1_OnlyListedTransitions ==
    [][pc' # "idle" =>
         \A i \in DOMAIN mem' :
            IF i \in DOMAIN mem
            THEN \/ mem'[i].status = mem[i].status
                 \/ <<mem[i].status, mem'[i].status>> \in ListedTransitions
            ELSE mem'[i].status = PROCESSING]_vars

\* C2: in every committed state, transcript, summary and title of a row are
\* all null or all non-null.
C2_FieldsAllOrNone ==
    \A r \in Rows :
        \/ r.transcript = Null /\ r.summary = Null /\ r.title = Null
        \/ r.transcript # Null /\ r.summary # Null /\ r.title # Null

\* C3: when the export that follows a successful transcription fails (no path
\* returned, or an exception), the row is committed COMPLETED with
\* obsidian_path and error_message null.
C3_ExportFailureKeepsCompleted ==
    [][(pc \in {"ingest_export", "rp_export"} /\ pc' # "idle"
          /\ store'[cur].status # EXPORTED)
        => (store'[cur].status = COMPLETED
              /\ store'[cur].obsidian_path = Null
              /\ store'[cur].error_message = Null)]_vars

\* C4: when an ingestion run is over, however its steps failed, every file of
\* the batch has its own row, and a row that failed is FAILED with an
\* error_message.
C4_EveryFileGetsItsRow ==
    pc \in {"ingest_post", "aborted"} =>
        /\ nextId - runBase = Len(batch)
        /\ \A i \in runBase..(nextId - 1) :
              store[i].status = FAILED => store[i].error_message # Null

\* C5: wherever in a run the process may crash, the committed status of every
\* row is the last status the tool gave it, and a row the tool made COMPLETED
\* is committed with its transcript.
C5_CrashKeepsLastTransition ==
    pc \notin Rest =>
        \A i \in DOMAIN mem :
            /\ i \in DOMAIN store
            /\ store[i].status = mem[i].status
            /\ mem[i].status = COMPLETED => store[i].transcript = mem[i].transcript

\* C6: in every committed state, a row with an error_message is FAILED.
C6_ErrorOnlyWhenFailed ==
    \A r \in Rows : r.error_message # Null => r.status = FAILED

\* C7: in every committed state, a row with an obsidian_path is EXPORTED.
C7_PathOnlyWhenExported ==
    \A r \in Rows : r.obsidian_path # Null => r.status = EXPORTED

\* C7 witness: a regenerate run has gone over a table that holds an exported
\* row with its obsidian_path.
C7_Witness ==
    /\ pc = "rg_done"
    /\ \E r \in Rows : r.obsidian_path # Null /\ r.status = EXPORTED

\* C8: in every committed state, a FAILED row has an error_message.
C8_FailedHasError ==
    \A r \in Rows : r.status = FAILED => r.error_message # Null

\* C8 witness: reprocess_failed_recordings found no audio file for a FAILED row
\* and has committed it.
C8_Witness ==
    \E r \in Rows : r.status = FAILED /\ r.error_message = "File not found"

\* Positions at which process_audio has just returned to its caller.
ReturnedPcs == {"ingest_apply", "rp_apply", "rg_apply", "direct_done"}

C10_TerminalFailureCommitsFailed ==
    [][(pc \in {"ingest_apply", "rp_apply", "rg_apply"} /\ lastAttempt = "raised"
          /\ pc' # "idle")
        => (store'[cur].status = FAILED /\ store'[cur].error_message # Null)]_vars

\* Positions inside a run of a reprocessing tool.
ReprocessPcs ==
    {"rp_check", "rp_transcribe", "rp_apply", "rp_export", "rp_done",
     "rg_check", "rg_exportonly", "rg_transcribe", "rg_apply", "rg_export", "rg_done"}

\* Neither the stored file of the row nor its compressed variant exists.
NoAudioFor(rec) ==
    /\ rec.stored_filename \notin disk
    /\ WithSuffixCompressed(rec.stored_filename) \notin disk

\* C11: while a reprocessing tool (reprocess_failed_recordings, or regenerate
\* without export-only) has a row in transcription, the committed status of
\* that row is not FAILED: the reset to PROCESSING was committed first.
C11_ResetBeforeTranscription ==
    pc \in {"rp_transcribe", "rg_transcribe"} => store[cur].status # FAILED

\* C12: no step of a reprocessing run adds or deletes a row or changes an id:
\* the ids of the table, of the session and the next id stay as they are.
C12_ReprocessingKeepsIds ==
    [][(pc \in ReprocessPcs) =>
         (DOMAIN store' = DOMAIN store /\ DOMAIN mem' = DOMAIN mem /\ nextId' = nextId)]_vars

\* C12 witness: reprocess_failed_recordings has gone over a table of two rows
\* and has brought one of them to EXPORTED.
C12_Witness ==
    /\ pc = "rp_done"
    /\ DOMAIN store = 1..2
    /\ \E i \in DOMAIN store : store[i].status = EXPORTED /\ calls[i] = 1

\* C13: an export-only regenerate run takes every COMPLETED row it selected to
\* the export, whether or not its audio file is still there, and an export
\* that succeeds commits the row EXPORTED with its obsidian_path, with no call
\* of process_audio and with transcript, summary and title as they were.
C13_ExportOnlyNeedsNoAudio ==
    [][(/\ (pc = "rg_check" /\ exportOnly /\ pc' # "idle"
               /\ mem[Head(queue)].status = COMPLETED)
             => (pc' = "rg_exportonly" /\ cur' = Head(queue))
        /\ (pc = "rg_exportonly" /\ pc' # "idle" /\ mem[cur].status = COMPLETED)
             => /\ calls' = calls
                /\ \/ store' = store
                   \/ store'[cur] = [mem[cur] EXCEPT !.status = EXPORTED,
                                                     !.obsidian_path = "note.md"]
       )]_vars

\* C14: when a reprocessing tool finds neither the stored file of a row nor
\* its compressed variant, it commits the row FAILED with the error_message
\* that names the missing file, and does not call process_audio for it.
C14_MissingAudioRecordedAsFailed ==
    [][(pc \in {"rp_check", "rg_check"} /\ pc' # "idle" /\ NoAudioFor(mem[Head(queue)]))
        => (/\ store'[Head(queue)].status = FAILED
            /\ store'[Head(queue)].error_message = "File not found"
            /\ calls' = calls
            /\ pc' \notin TranscribePcs
           )]_vars

----------------------------------------------------------------------------
\* Properties of the dedup pass (checked under DedupSpec).

\* Positions at which analyze_database has returned.
AnalysedPcs == {"cl_display", "cl_cleanup", "cl_done"}

\* The records of the analysis whose file exists, and the ids of a list of records.
AnalysedValid ==
    SelectSeq(analysis.all_records, LAMBDA r : GetFileSize(r.stored_filename) # NoSize)
IdsOf(recs) == {recs[i].id : i \in DOMAIN recs}

\* C15: a step of the dedup pass changes the recordings table only in
\* cleanup_database and only when --force was given; with or without
\* --dry-run, a run without --force leaves the table as it was.
C15_DeletesOnlyWithForce ==
    [][(store' # store) => (pc = "cl_cleanup" /\ args.force)]_vars

\* C15 witness: a run without --force is over, it listed ids to delete, and
\* every one of them is still in the table.
C15_Witness ==
    /\ pc = "cl_done"
    /\ ~args.force
    /\ ids_to_delete # <<>>
    /\ Range(ids_to_delete) \subseteq DOMAIN store

\* C16: after cleanup_database, every cluster keeps exactly one member, the
\* one that is minimal under (status != EXPORTED, id), and all its other
\* members are in the list of ids to delete; and computing the analysis again
\* on the unchanged table and files gives the same clusters and the same list.
C16_RetainsArgmin ==
    /\ pc = "cl_done" =>
         \A g \in Range(analysis.duplicate_groups) :
            LET exported == {r \in Range(g) : r.status = EXPORTED}
                pool == IF exported # {} THEN exported ELSE Range(g)
                retained == CHOOSE r \in pool : \A o \in pool : r.id <= o.id
            IN /\ retained.id \notin Range(ids_to_delete)
               /\ IdsOf(g) \ {retained.id} \subseteq Range(ids_to_delete)
    /\ (pc \in AnalysedPcs /\ IdsOf(analysis.all_records) = DOMAIN store) =>
         /\ Analyze = analysis
         /\ pc = "cl_done" => IdsToDelete(Analyze) = ids_to_delete

\* C16 witness: a cluster whose lowest id is not EXPORTED and whose EXPORTED
\* member is the one kept.
C16_Witness ==
    /\ pc = "cl_done"
    /\ \E g \in Range(analysis.duplicate_groups) :
         \E r \in Range(g) :
            /\ r.status = EXPORTED
            /\ \E o \in Range(g) : o.id < r.id
            /\ r.id \notin Range(ids_to_delete)

\* C17: a record whose stored file is absent is in no cluster, and after
\* cleanup_database its id is in the list of ids to delete.
C17_MissingNeverClustered ==
    pc \in AnalysedPcs =>
        \A r \in Range(analysis.all_records) :
            GetFileSize(r.stored_filename) = NoSize =>
                /\ \A g \in Range(analysis.duplicate_groups) : r.id \notin IdsOf(g)
                /\ pc = "cl_done" => r.id \in Range(ids_to_delete)

\* C17 witness: a record without its file has the name and the date of a
\* record with a file; it is listed for deletion and the other one is not.
C17_Witness ==
    /\ pc = "cl_done"
    /\ \E r, o \in Range(analysis.all_records) :
         /\ GetFileSize(r.stored_filename) = NoSize
         /\ GetFileSize(o.stored_filename) # NoSize
         /\ Upper(r.original_filename) = Upper(o.original_filename)
         /\ r.stored_filename.ts[1] = o.stored_filename.ts[1]
         /\ r.transcript = o.transcript
         /\ r.id \in Range(ids_to_delete)
         /\ o.id \notin Range(ids_to_delete)

\* C18: the Tier-3 candidates are in ascending id order; every Tier-3 cluster
\* has at least two members and its seed, the first one, has its lowest id;
\* and for a candidate s that joined no earlier cluster and a later candidate
\* c, c is in the cluster seeded by s exactly when c joined no cluster seeded
\* before s and c meets both the size condition and the transcript threshold
\* against s.
C18_SeedAnchoredTier3 ==
    pc \in AnalysedPcs =>
        LET cands == SimilarityCandidates(AnalysedValid)
            groups3 == {g \in Range(analysis.duplicate_groups) : IdsOf(g) \subseteq IdsOf(cands)}
            joinedBefore(c, s) ==
                \E g \in groups3 : g[1].id < s.id /\ c.id \in IdsOf(g)
            similar(s, c) ==
                /\ FileSizeSimilar(GetFileSize(s.stored_filename), GetFileSize(c.stored_filename))
                /\ AtLeast(TextSimilarity(Strip(s.transcript), Strip(c.transcript)),
                           TRANSCRIPT_SIMILARITY_THRESHOLD)
        IN /\ \A i, j \in DOMAIN cands : i < j => cands[i].id < cands[j].id
           /\ \A g \in groups3 :
                 /\ Len(g) >= 2
                 /\ \A j \in 2..Len(g) : g[1].id < g[j].id
           /\ \A s, c \in Range(cands) :
                 (s.id < c.id /\ \A g \in groups3 : s.id \notin IdsOf(g) \ {g[1].id}) =>
                    ((\E g \in groups3 : g[1] = s /\ c.id \in IdsOf(g))
                       <=> (~joinedBefore(c, s) /\ similar(s, c)))

\* C18 witness: candidates A, B, C in this order, B similar to A and to C, C
\* not similar to A: the cluster seeded by A holds B and not C, and C is in no
\* cluster.
C18_Witness ==
    /\ pc \in AnalysedPcs
    /\ \E g \in Range(analysis.duplicate_groups) :
         /\ Len(g) = 2
         /\ g[1].transcript = TextA /\ g[1].id = 1
         /\ g[2].transcript = TextB /\ g[2].id = 2
    /\ Len(analysis.all_records) = 3
    /\ analysis.all_records[3].transcript = TextC
    /\ GetFileSize(analysis.all_records[3].stored_filename) = GetFileSize(analysis.all_records[2].stored_filename)
    /\ analysis.all_records[3].id \in IdsOf(SimilarityCandidates(AnalysedValid))
    /\ FileSizeSimilar(GetFileSize(analysis.all_records[1].stored_filename),
                       GetFileSize(analysis.all_records[3].stored_filename))
    /\ AtLeast(TextSimilarity(TextB, TextC), TRANSCRIPT_SIMILARITY_THRESHOLD)
    /\ ~AtLeast(TextSimilarity(TextA, TextC), TRANSCRIPT_SIMILARITY_THRESHOLD)
    /\ \A g \in Range(analysis.duplicate_groups) : 3 \notin IdsOf(g)

\* C19: the members of a Tier-1 cluster have pairwise the same upper-cased
\* original_filename and the same date in stored_filename; and two records
\* with files that agree on both are in one Tier-1 cluster.
C19_Tier1SameNameAndDate ==
    pc \in AnalysedPcs =>
        LET tier1 == Range(Tier1Groups(AnalysedValid))
            agree(r, o) ==
                /\ Upper(r.original_filename) = Upper(o.original_filename)
                /\ r.stored_filename.ts[1] = o.stored_filename.ts[1]
        IN /\ tier1 \subseteq Range(analysis.duplicate_groups)
           /\ \A g \in tier1 : \A r, o \in Range(g) : agree(r, o)
           /\ \A r, o \in Range(AnalysedValid) :
                 (r.id # o.id /\ agree(r, o)) =>
                    \E g \in tier1 : {r.id, o.id} \subseteq IdsOf(g)

\* C19 witness: a Tier-1 cluster of two records whose names differ in case
\* only, next to a record of the same name and another date that is not in it.
C19_Witness ==
    /\ pc \in AnalysedPcs
    /\ \E g \in Range(Tier1Groups(AnalysedValid)) :
         /\ \E r, o \in Range(g) : r.original_filename # o.original_filename
         /\ \E x \in Range(AnalysedValid) :
              /\ x.id \notin IdsOf(g)
              /\ Upper(x.original_filename) = Upper(g[1].original_filename)

\* C20: after cleanup_database, in every table display_analysis printed, the
\* record marked as kept is not in the list of ids to delete and the records
\* marked for removal are in it.
C20_ReportAgreesWithDeletion ==
    pc = "cl_done" =>
        \A t \in Range(shown.groups) : \A row \in Range(t) :
            row.keep <=> row.id \notin Range(ids_to_delete)


\* ---------------------------------------------------------------------------
\* Ingestion: the successful path, the copy before the row, the stored names
\* ---------------------------------------------------------------------------

\* A row that carries everything a complete transcription result delivers.
Transcribed(rec) ==
    rec.transcript # Null /\ rec.summary # Null /\ rec.title # Null

\* C24: in an ingestion run the row of a file is created with status
\* PROCESSING, and when its transcription delivered transcript, summary and
\* title and the export returned a path, the row written for it is EXPORTED
\* with transcript, summary, title and obsidian_path set and error_message
\* null, and that row is the one committed.
C24_SuccessEndsExported ==
    [][( /\ (pc = "ingest_row" /\ pc' = "ingest_transcribe")
            => ( /\ cur' \notin DOMAIN store
                 /\ store'[cur'].status = PROCESSING
                 /\ mem'[cur'] = store'[cur'] )
         /\ (pc = "ingest_export" /\ pc' # "idle" /\ Transcribed(mem[cur]))
            => LET r == AfterExport(mem[cur], "path")
               IN /\ "path" \in ExportOutcomes(mem[cur])
                  /\ r.status = EXPORTED
                  /\ Transcribed(r)
                  /\ r.obsidian_path # Null
                  /\ r.error_message = Null
                  /\ \/ store'[cur] = r
                     \/ store'[cur].obsidian_path = Null
       )]_vars

\* C24 witness: the run is past the export of a file whose committed row is
\* EXPORTED with every field of the result and the path of the note.
C24_Witness ==
    /\ pc = "ingest_post"
    /\ cur \in DOMAIN store
    /\ cur >= runBase
    /\ store[cur].status = EXPORTED
    /\ Transcribed(store[cur])
    /\ store[cur].obsidian_path # Null
    /\ store[cur].error_message = Null

\* C26: a row is added to the store only by the step that follows a completed
\* copy, and at that moment the file it names is in durable storage; a failed
\* copy or a crash adds no row.
C26_RowOnlyAfterCopy ==
    [][\A i \in DOMAIN store' \ DOMAIN store :
         /\ pc = "ingest_row"
         /\ store'[i].stored_filename = curPath
         /\ curPath \in disk
      ]_vars

\* C26 witness: ingestion has committed a row whose file is stored, after a
\* run in which a copy failed or the process died.
C26_Witness ==
    /\ pc = "ingest_transcribe"
    /\ store[cur].stored_filename \in disk
    /\ runs >= 2

\* C27: no two rows of one ingestion batch carry the same stored_filename.
C27_StoredNamesDistinct ==
    \A i, j \in DOMAIN store :
        (i # j /\ i >= runBase /\ j >= runBase /\ pc \in {"ingest_copy", "ingest_row",
            "ingest_transcribe", "ingest_apply", "ingest_export", "ingest_post"})
        => store[i].stored_filename # store[j].stored_filename

\* C29: a reprocessing tool that transcribes a file other than the one the row
\* names has committed the name of the file it uses.
C29_FallbackNameCommitted ==
    (pc \in {"rp_transcribe", "rg_transcribe"})
    => store[cur].stored_filename = curPath


\* ---------------------------------------------------------------------------
\* Dedup pass: the exact-match tier
\* ---------------------------------------------------------------------------

\* The records with a file that share name and date with no other such record.
Tier1Singletons ==
    {r \in Range(AnalysedValid) :
        \A o \in Range(AnalysedValid) : Tier1Key(o) = Tier1Key(r) => o.id = r.id}

\* C25: two Tier-1 singletons are in one Tier-2 cluster exactly when their
\* files have the same size and their stripped transcripts are equal and not
\* empty; a Tier-1 singleton with a null or blank transcript is in no cluster
\* and is not among the ids to delete.
C25_Tier2ExactMatch ==
    pc \in AnalysedPcs =>
        /\ \A g \in Range(Tier2Groups(AnalysedValid)) :
               g \in Range(analysis.duplicate_groups)
        /\ \A r, o \in Tier1Singletons :
               r.id # o.id =>
                   ((\E g \in Range(Tier2Groups(AnalysedValid)) : {r.id, o.id} \subseteq IdsOf(g))
                    <=> ( /\ GetFileSize(r.stored_filename) = GetFileSize(o.stored_filename)
                          /\ TranscriptClean(r.transcript) = TranscriptClean(o.transcript)
                          /\ TranscriptClean(r.transcript) # "" ))
        /\ \A r \in Tier1Singletons :
               TranscriptClean(r.transcript) = "" =>
                   /\ \A g \in Range(analysis.duplicate_groups) : r.id \notin IdsOf(g)
                   /\ pc = "cl_done" => r.id \notin Range(ids_to_delete)

\* C25 witness: a forced run is done on a table with two Tier-1 singletons
\* clustered for their size and stripped transcript (one of them padded) and a
\* third singleton whose transcript is blank.
C25_Witness ==
    /\ pc = "cl_done"
    /\ args.force
    /\ \E r, o, b \in Tier1Singletons :
         /\ r.id # o.id
         /\ r.transcript # o.transcript
         /\ TranscriptClean(r.transcript) = TranscriptClean(o.transcript)
         /\ \E g \in Range(analysis.duplicate_groups) : {r.id, o.id} \subseteq IdsOf(g)
         /\ b.transcript = TextBlank
         /\ b.id \in DOMAIN store

\* ---------------------------------------------------------------------------
\* process_audio: the uploaded file and the parse of the response
\* ---------------------------------------------------------------------------

\* C28: an attempt that uploaded the audio has called delete_file on the
\* uploaded file by the time it ends, whether it returned or raised.
C28_UploadedFileDeleted ==
    lastAttempt # "none" => (remote.uploaded => remote.delete_attempted)

\* The latest attempt got a response text and failed to parse it.
ParseFailed == lastAttempt = "raised" /\ remote.parses > 0

\* C30: a response whose first parse fails is sanitized and parsed once more,
\* never a third time; the attempt succeeds exactly when the second parse
\* does; an attempt whose two parses failed is a failed attempt of the
\* loop: it is followed by another attempt only when one remains, otherwise
\* process_audio returns None, and the exception does not leave it.
C30_SanitizeAndReparseOnce ==
    /\ \A resp \in Responses :
          (resp.stage = "text" /\ JsonLoadsRaises(resp)) =>
              /\ ParseCount(resp) = 2
              /\ AttemptRaises(resp) <=> JsonLoadsRaises(StripControl(resp))
    /\ lastAttempt # "none" => remote.parses \in 0..2
    /\ lastAttempt = "returned" => (remote.parses \in {1, 2} /\ pc \in ReturnedPcs)
    /\ ParseFailed =>
          /\ remote.parses = 2
          /\ result = None
          /\ \/ pc \in TranscribePcs /\ attempt < MaxAttempts(retry)
             \/ pc \in ReturnedPcs /\ attempt = MaxAttempts(retry)

\* C30 witness: process_audio returned None to a tool after two attempts, the
\* second of which parsed its response twice and failed.
C30_Witness ==
    /\ ParseFailed
    /\ remote.parses = 2
    /\ attempt = 2
    /\ pc \in ReturnedPcs
    /\ result = None

\* ---------------------------------------------------------------------------
\* Consistency checker
\* ---------------------------------------------------------------------------

\* How many of the outcomes of a run are of one kind.
CountOf(outs, kind) == Cardinality({k \in DOMAIN outs : outs[k].outcome = kind})

\* C21: no step of check_consistency changes the table, the stored files or
\* the vault, and a run that follows another one ends with the same number of
\* MISSING, MISMATCH, third-person and read-error findings and the same
\* closing count as the run before.
C21_CheckerReadOnly ==
    [][( /\ store' = store
         /\ vault' = vault
         /\ disk' = disk
         /\ (pc' \in {"ck_done", "aborted"} /\ runs' >= 2)
            => ( /\ \A kind \in Issues :
                       CountOf(outcomes', kind) = CountOf(previous'.outcomes, kind)
                 /\ reported' = previous'.reported )
       )]_vars

\* C21 witness: a second run has finished after reading a note, with a
\* MISSING, a MISMATCH or a third-person finding, as the first one did.
C21_Witness ==
    /\ pc = "ck_done"
    /\ runs = 2
    /\ previous.reported = reported
    /\ reported # <<0>>
    /\ \E k \in DOMAIN outcomes : outcomes[k].outcome \in ReadOutcomes
    /\ \E k \in DOMAIN outcomes : outcomes[k].outcome \in {"MISSING", "MISMATCH", "THIRD PERSON"}

\* C22: the loop of check_consistency never ends in an exception: every
\* recording of the table gets an outcome, and the closing count is printed.
C22_CheckerNeverRaises ==
    /\ \A k \in DOMAIN outcomes : outcomes[k].outcome # "raised"
    /\ (pc = "ck_loop" /\ queue = <<>>) => Len(outcomes) = Len(store)

\* The outcome the four-way rule gives for a recording with a summary: MISSING
\* without a note at the name derived from the title, else MISMATCH when the
\* stripped summary is not in the content of the note, else the third-person
\* warning when a marker is found, else no finding.
FourWayOutcome(rec, v) ==
    IF rec.title = Null \/ NoteName(rec.title) \notin DOMAIN v THEN "MISSING"
    ELSE IF ~( /\ v[NoteName(rec.title)].readable
               /\ Contains(v[NoteName(rec.title)].text, Strip(rec.summary)) ) THEN "MISMATCH"
    ELSE IF \E m \in ThirdPersonMarkers : Contains(Lower(rec.summary), m) THEN "THIRD PERSON"
    ELSE "clean"

\* C23: every recording with a non-null summary gets exactly the outcome of
\* the four-way rule, a recording with a null summary gets no finding, and
\* the count of the closing line is the number of recordings with a finding.
C23_ExactlyOneOutcome ==
    /\ \A k \in DOMAIN outcomes :
          LET rec == store[outcomes[k].id]
          IN IF rec.summary = Null
             THEN outcomes[k].outcome \notin Issues
             ELSE outcomes[k].outcome = FourWayOutcome(rec, vault)
    /\ pc = "ck_done" =>
          /\ Len(outcomes) = Len(store)
          /\ reported = <<Cardinality({k \in DOMAIN outcomes : outcomes[k].outcome \in Issues})>>

\* ---------------------------------------------------------------------------
\* Dedup pass: the clusters as a partition, and a second pass
\* ---------------------------------------------------------------------------

\* C31: the clusters of the analysis share no record with one another nor
\* with the missing files; the list of ids to delete has no id twice and as
\* many ids as there are missing files plus, per cluster, its size minus one;
\* and after a forced cleanup the table has as many rows as the final count
\* that display_analysis printed.
C31_ClustersPartition ==
    /\ pc \in AnalysedPcs =>
          /\ \A g, h \in DOMAIN analysis.duplicate_groups :
                g # h => IdsOf(analysis.duplicate_groups[g])
                           \cap IdsOf(analysis.duplicate_groups[h]) = {}
          /\ \A g \in Range(analysis.duplicate_groups) :
                /\ Cardinality(IdsOf(g)) = Len(g)
                /\ IdsOf(g) \cap IdsOf(analysis.missing_files) = {}
    /\ pc = "cl_done" =>
          /\ Cardinality(Range(ids_to_delete)) = Len(ids_to_delete)
          /\ Len(ids_to_delete) =
                Len(analysis.missing_files)
                + SumOf([g \in DOMAIN analysis.duplicate_groups |->
                            Len(analysis.duplicate_groups[g]) - 1])
          /\ args.force => Cardinality(DOMAIN store) = shown.final_count

\* C31 witness: a forced cleanup is done on an analysis with two clusters.
C31_Witness ==
    /\ pc = "cl_done"
    /\ args.force
    /\ Len(analysis.duplicate_groups) >= 2
    /\ Len(ids_to_delete) >= 2
    /\ Cardinality(DOMAIN store) = shown.final_count

\* C32: the analysis of the table a forced cleanup leaves behind, the files
\* being the same, has no cluster and no missing file.
C32_ForcedCleanupFixpoint ==
    (pc = "cl_done" /\ args.force)
    => (Analyze.duplicate_groups = <<>> /\ Analyze.missing_files = <<>>)
====
